---- MODULE Spec2Model ----
(***************************************************************************)
(* Gauss-Legendre quadrature script (src/cuadrature.py).                   *)
(*                                                                         *)
(* Two specifications:                                                     *)
(*   Spec / FairSpec : the order search of main() (the while loop and the  *)
(*                     summary line printed after it).                     *)
(*   MapSpec         : the pure function gaussxwab applied to inputs drawn *)
(*                     from bounded sets.                                  *)
(*                                                                         *)
(* Numbers of the order search.  The analytic value is an integer number   *)
(* of coarse units.  An approximation is a pair <<hi, lo>> standing for    *)
(* hi + lo * 10^(-FineExp): hi in coarse units, lo in fine units, so that  *)
(* deviations of the size of the tolerance 10^(-TolExp) can be told from   *)
(* zero with small integers.  |lo| stays far below 10^FineExp, hence the   *)
(* sign of a pair is the sign of hi, or of lo when hi = 0.                 *)
(*                                                                         *)
(* Numbers of gaussxwab.  A float is a binary floating-point number with a *)
(* mantissa of MantBits bits, rounded to nearest, ties to even, as float64 *)
(* is with 53 bits.  It is held as an integer number of units of           *)
(* 2^(-FracBits); the inputs are taken from grids on which every           *)
(* intermediate value is a whole number of units (GridExact).              *)
(***************************************************************************)
EXTENDS Integers, Sequences, FiniteSets

\* ------------------------------------------------------------------ bounds
MaxRef == 1
MaxLo == 2
FineExp == 11
MantBits == 3
FracBits == 6
MaxEnd == 2
MaxNodes == 2

\* program constants
MaxOrder == 50
TolExp == 10

\* tol = 1e-10 counted in fine units
TolFine == 10 ^ (FineExp - TolExp)

VARIABLES
    analytic,          \* derivada_analitica(3) - derivada_analitica(1)
    quad,              \* what the quadrature yields at each order (see approxAt)
    N,                 \* current order
    N_valores,         \* orders tried
    integral_valores,  \* approximation of each trial
    errores,           \* error of each trial
    approx,            \* approximation of the last trial
    pc,                \* "Running", "Succeeded" (break of line 204), "FailedCapped" (break of line 208)
    printed,           \* summary lines printed after the loop
    liminf, limsup,    \* MapSpec: arguments of gaussxwab
    pto, peso,         \* MapSpec: reference rule handed to gaussxwab
    pto_esc, peso_esc, \* MapSpec: what gaussxwab returned
    mpc                \* MapSpec: "call" before the call, "returned" after it

searchVars == <<analytic, quad, N, N_valores, integral_valores, errores, approx, pc, printed>>
mapVars == <<liminf, limsup, pto, peso, pto_esc, peso_esc, mpc>>
vars == <<analytic, quad, N, N_valores, integral_valores, errores, approx, pc, printed,
          liminf, limsup, pto, peso, pto_esc, peso_esc, mpc>>

\* ------------------------------------------------- arithmetic of the search
Refs == {-MaxRef, 0, MaxRef}

\* approximations: exact, half a tolerance off, a whole tolerance off, ...
Approxs == {<<h, l * (TolFine \div 2)>> : h \in {0, MaxRef}, l \in 0..MaxLo}

\* approx - analytic
Sub(a, ref) == <<a[1] - ref, a[2]>>

IsZero(v) == v[1] = 0 /\ v[2] = 0

IsNeg(v) == v[1] < 0 \/ (v[1] = 0 /\ v[2] < 0)

\* abs(.) of a pair
AbsV(v) == IF IsNeg(v) THEN <<-v[1], -v[2]>> ELSE v

\* err = abs(approx - analytic) / analytic, as float64 division gives it:
\* a finite quotient num/den, or x/0 = inf for x > 0 and 0/0 = nan.
RelErr(a, ref) ==
    LET num == AbsV(Sub(a, ref)) IN
    IF ref # 0 THEN [kind |-> "fin", num |-> num, den |-> ref]
    ELSE IF IsZero(num) THEN [kind |-> "nan", num |-> num, den |-> ref]
    ELSE [kind |-> "inf", num |-> num, den |-> ref]

\* faulty variant of ErrBelowTol: the comparison made non-strict (err <= tol)
ErrBelowTolLe(err) ==
    /\ err.kind = "fin"
    /\ \/ err.den < 0
       \/ err.den > 0 /\ err.num[1] = 0 /\ err.num[2] <= TolFine * err.den

\* err < tol.  num >= 0, so a negative den gives a quotient <= 0 < tol;
\* with den > 0 the test is num < tol * den, and a num of a coarse unit or
\* more is never below it.  inf < tol and nan < tol are False.
ErrBelowTol(err) ==
    /\ err.kind = "fin"
    /\ \/ err.den < 0
       \/ err.den > 0 /\ err.num[1] = 0 /\ err.num[2] < TolFine * err.den

\* faulty variant of CapExceeded: the cap tested one order late (N > 51)
CapExceededLate(n) == n > MaxOrder + 1

\* N > 50
CapExceeded(n) == n > MaxOrder

\* faulty variant of append: the record replaces the list instead of extending it
appendReplace(list, x) == <<x>>

\* list.append(x)
append(list, x) == Append(list, x)

\* eva_int(gaussxwab(1, 3, gaussxw(n)), func_arg_int): a function of the order
\* alone.  Its values are an input here: far from order 1 up to quad.K - 1,
\* near from order quad.K on.
approxAt(n) == IF n < quad.K THEN quad.far ELSE quad.near


\* --------------------------------------------------- arithmetic of gaussxwab
Unit == 2 ^ FracBits

RECURSIVE BitLen(_)
BitLen(k) == IF k = 0 THEN 0 ELSE 1 + BitLen(k \div 2)

\* a non-negative number rounded to MantBits significant bits, ties to even
RoundPos(k) ==
    IF BitLen(k) <= MantBits THEN k
    ELSE LET q == 2 ^ (BitLen(k) - MantBits)
             m == k \div q
             r == k - m * q
         IN  IF 2 * r < q THEN m * q
             ELSE IF 2 * r > q THEN (m + 1) * q
             ELSE IF m % 2 = 0 THEN m * q ELSE (m + 1) * q

\* the float nearest to k
fl(k) == IF k < 0 THEN -RoundPos(-k) ELSE RoundPos(k)

\* x + y and x - y in floating point
fadd(x, y) == fl(x + y)
fsub(x, y) == fl(x - y)

\* x * y in floating point: the exact product counts units of 1/Unit^2
fmul(x, y) == fl(x * y) \div Unit

\* 0.5 * x: exact in binary floating point
half(x) == x \div 2

\* faulty variant of gaussxwab: the offset taken as 0.5 * (limsup - liminf)
gaussxwabOffset(a, b, x, w) ==
    <<[i \in DOMAIN x |-> fadd(fmul(half(fsub(b, a)), x[i]), half(fsub(b, a)))],
      [i \in DOMAIN w |-> fmul(half(fsub(b, a)), w[i])]>>

\* (0.5 * (limsup - liminf) * pto + 0.5 * (limsup + liminf),
\*  0.5 * (limsup - liminf) * peso)
gaussxwab(a, b, x, w) ==
    <<[i \in DOMAIN x |-> fadd(fmul(half(fsub(b, a)), x[i]), half(fadd(b, a)))],
      [i \in DOMAIN w |-> fmul(half(fsub(b, a)), w[i])]>>

IsFloat(k) == fl(k) = k

\* interval ends: the floats among the quarters from -MaxEnd/4 to MaxEnd
Ends == {k \in {j * (Unit \div 4) : j \in (-MaxEnd)..(4 * MaxEnd)} : IsFloat(k)}

\* nodes: the floats among the quarters of [-1, 1]
NodeVals == {k \in {j * (Unit \div 4) : j \in (-4)..4} : IsFloat(k)}

\* weights: the halves of (0, 2]
WeightVals == {k \in {j * (Unit \div 2) : j \in 1..4} : IsFloat(k)}

RECURSIVE SumSeq(_)
SumSeq(s) == IF s = <<>> THEN 0 ELSE s[1] + SumSeq(Tail(s))

\* rules on [-1, 1]: nodes strictly increasing, weights positive with sum 2
Rules ==
    UNION {
        {r \in [x : [1..n -> NodeVals], w : [1..n -> WeightVals]] :
            /\ \A i \in 1..(n - 1) : r.x[i] < r.x[i + 1]
            /\ SumSeq(r.w) = 2 * Unit}
        : n \in 1..MaxNodes}

\* ------------------------------------------------------------ order search
SearchInit ==
    /\ analytic \in Refs
    /\ quad \in [K : 1..(MaxOrder + 1), far : Approxs, near : Approxs]
    /\ N = 1
    /\ N_valores = <<>>
    /\ integral_valores = <<>>
    /\ errores = <<>>
    /\ approx = <<0, 0>>
    /\ pc = "Running"
    /\ printed = <<>>

\* lines 187-198 of one iteration: evaluate, compute the error, store the record
Store(a) ==
    /\ approx' = a
    /\ N_valores' = append(N_valores, N)
    /\ integral_valores' = append(integral_valores, a)
    /\ errores' = append(errores, RelErr(a, analytic))

\* an iteration that leaves by `if err < tol: break`
TrialConverged ==
    /\ pc = "Running"
    /\ ErrBelowTol(RelErr(approxAt(N), analytic))
    /\ Store(approxAt(N))
    /\ pc' = "Succeeded"
    /\ UNCHANGED <<analytic, quad, N, printed>>

\* an iteration that goes round again
TrialNext ==
    /\ pc = "Running"
    /\ ~ErrBelowTol(RelErr(approxAt(N), analytic))
    /\ ~CapExceeded(N + 1)
    /\ Store(approxAt(N))
    /\ N' = N + 1
    /\ UNCHANGED <<analytic, quad, pc, printed>>

\* an iteration that leaves by `if N > 50: break`
TrialCapped ==
    /\ pc = "Running"
    /\ ~ErrBelowTol(RelErr(approxAt(N), analytic))
    /\ CapExceeded(N + 1)
    /\ Store(approxAt(N))
    /\ N' = N + 1
    /\ pc' = "FailedCapped"
    /\ UNCHANGED <<analytic, quad, printed>>

\* print(f"\nPrimer N con error < {tol} es N = {N}, con integral ~ {approx}")
Report ==
    /\ pc \in {"Succeeded", "FailedCapped"}
    /\ printed = <<>>
    /\ printed' = <<[msg |-> "PrimerN", N |-> N, approx |-> approx]>>
    /\ UNCHANGED <<analytic, quad, N, N_valores, integral_valores, errores, approx, pc>>

MapIdle ==
    /\ liminf = 0 /\ limsup = 0 /\ pto = <<>> /\ peso = <<>>
    /\ pto_esc = <<>> /\ peso_esc = <<>> /\ mpc = "idle"

Init == SearchInit /\ MapIdle

Next ==
    \/ TrialConverged /\ UNCHANGED mapVars
    \/ TrialNext /\ UNCHANGED mapVars
    \/ TrialCapped /\ UNCHANGED mapVars
    \/ Report /\ UNCHANGED mapVars

Spec == Init /\ [][Next]_vars

\* main() runs to completion on its own: no step waits for anything
FairSpec == Spec /\ WF_vars(Next)


\* ----------------------------------------------------- gaussxwab on its own
SearchIdle ==
    /\ analytic = 0
    /\ quad = [K |-> 1, far |-> <<0, 0>>, near |-> <<0, 0>>]
    /\ N = 1 /\ N_valores = <<>> /\ integral_valores = <<>> /\ errores = <<>>
    /\ approx = <<0, 0>> /\ pc = "idle" /\ printed = <<>>

MapInit ==
    /\ \E r \in Rules : pto = r.x /\ peso = r.w
    /\ liminf \in Ends
    /\ limsup \in Ends
    /\ pto_esc = <<>>
    /\ peso_esc = <<>>
    /\ mpc = "call"
    /\ SearchIdle

\* pto_esc, peso_esc = gaussxwab(liminf, limsup, pto, peso)
CallGaussxwab ==
    /\ mpc = "call"
    /\ pto_esc' = gaussxwab(liminf, limsup, pto, peso)[1]
    /\ peso_esc' = gaussxwab(liminf, limsup, pto, peso)[2]
    /\ mpc' = "returned"
    /\ UNCHANGED <<liminf, limsup, pto, peso>>

MapNext == CallGaussxwab /\ UNCHANGED searchVars

MapSpec == MapInit /\ [][MapNext]_vars

\* every intermediate value of the call is a whole number of units
GridExact ==
    /\ fsub(limsup, liminf) % 2 = 0
    /\ fadd(limsup, liminf) % 2 = 0
    /\ \A i \in DOMAIN pto : fl(half(fsub(limsup, liminf)) * pto[i]) % Unit = 0
    /\ \A i \in DOMAIN peso : fl(half(fsub(limsup, liminf)) * peso[i]) % Unit = 0

\* ------------------------------------------------------------------ claims
\* the comparisons of the claims, stated on the stored error itself
BelowTol(e) ==
    e.kind = "fin" /\ (e.den < 0 \/ (e.den > 0 /\ e.num[1] = 0 /\ e.num[2] < TolFine * e.den))

AtLeastTol(e) ==
    \/ e.kind = "inf"
    \/ e.kind = "fin" /\ e.den > 0 /\ (e.num[1] > 0 \/ e.num[2] >= TolFine * e.den)

Terminal == pc \in {"Succeeded", "FailedCapped"}

Last(s) == s[Len(s)]

\* C1: when the search ends because the tolerance was met, the order it
\* reports is the smallest order whose error is below the tolerance: the last
\* record is below it, every earlier one is not; an order that passes, order
\* 50 included, ends the search in success and never in the capped outcome.
C1_FirstPassingOrder ==
    /\ pc = "Succeeded" =>
          /\ N \in 1..MaxOrder
          /\ Len(errores) = N
          /\ Last(N_valores) = N
          /\ BelowTol(errores[N])
          /\ \A i \in 1..(N - 1) : AtLeastTol(errores[i])
          /\ printed # <<>> => printed[1].N = N
    /\ Terminal /\ (\E i \in DOMAIN errores : BelowTol(errores[i])) => pc = "Succeeded"

\* C1 witness: order 50 is the first to pass, with an error that is not zero,
\* and has been reported
C1_Witness ==
    /\ pc = "Succeeded" /\ N = MaxOrder /\ printed # <<>>
    /\ ~IsZero(errores[N].num) /\ errores[N].den > 0

\* C2: the search terminates: it reaches Succeeded (some error below the
\* tolerance) or Failed-Capped (MaxOrder orders tried, none passed) after at
\* most MaxOrder trials, and no trial runs after a terminal state.
C2_Terminates ==
    /\ <>Terminal
    /\ [](Len(errores) <= MaxOrder)
    /\ [](pc = "Succeeded" => \E i \in DOMAIN errores : BelowTol(errores[i]))
    /\ [](pc = "FailedCapped" =>
            Len(errores) = MaxOrder /\ \A i \in DOMAIN errores : ~BelowTol(errores[i]))
    /\ [][Terminal => pc' = pc /\ N' = N /\ approx' = approx /\ errores' = errores
                      /\ N_valores' = N_valores /\ integral_valores' = integral_valores]_vars

\* C2 witness: the search has ended capped after MaxOrder trials
C2_Witness == pc = "FailedCapped" /\ Len(errores) = MaxOrder

\* C8: one record per order tried: the three lists have the same length k,
\* N_valores is 1, 2, ..., k, k <= MaxOrder, and a record once appended is
\* neither changed nor removed.
C8_OneRecordPerOrder ==
    /\ [](/\ Len(N_valores) = Len(errores)
          /\ Len(integral_valores) = Len(errores)
          /\ Len(errores) <= MaxOrder
          /\ \A i \in DOMAIN N_valores : N_valores[i] = i)
    /\ [][/\ Len(errores') >= Len(errores)
          /\ \A i \in DOMAIN errores :
                /\ errores'[i] = errores[i]
                /\ N_valores'[i] = N_valores[i]
                /\ integral_valores'[i] = integral_valores[i]]_vars

\* C8 witness: several records are held and the search has ended
C8_Witness == Len(errores) = MaxOrder /\ Len(N_valores) = MaxOrder /\ Terminal

\* C3: when every order up to MaxOrder was tried and none passed, no order is
\* reported as the first one that met the tolerance.
C3_NoFirstOrderWhenCapped ==
    pc = "FailedCapped" => \A i \in DOMAIN printed : printed[i].msg # "PrimerN"

\* C4: with a reference value that is not zero the stored error is
\* |approx - analytic| / |analytic|, hence not negative.
C4_RelativeErrorNonNegative ==
    \A i \in DOMAIN errores :
        analytic # 0 =>
            /\ errores[i].kind = "fin"
            /\ errores[i].num = AbsV(Sub(integral_valores[i], analytic))
            /\ IsZero(errores[i].num) \/ errores[i].den = (IF analytic < 0 THEN -analytic ELSE analytic)

\* C5: with a reference value of zero the stored error is the absolute error
\* |approx - analytic|, a finite number: nothing is divided by zero.
C5_AbsoluteErrorFallback ==
    \A i \in DOMAIN errores :
        analytic = 0 =>
            /\ errores[i].kind = "fin"
            /\ errores[i].num = AbsV(Sub(integral_valores[i], analytic))
            /\ errores[i].den = 1

\* C10: the order printed after the loop is the order of the last record, and
\* the approximation printed is the one computed at that order.
C10_PrintedOrderIsLastRecord ==
    printed # <<>> =>
        /\ printed[1].N = Last(N_valores)
        /\ printed[1].approx = Last(integral_valores)

Abs(k) == IF k < 0 THEN -k ELSE k

Max(a, b) == IF a > b THEN a ELSE b

\* C6: gaussxwab returns nothing for an interval with liminf >= limsup.
C6_RejectsInvalidInterval ==
    ~(mpc = "returned" /\ liminf >= limsup /\ Len(pto_esc) > 0)

====
